---------------------------- MODULE Spec2Model ----------------------------
(***************************************************************************)
(* Verification model of bevy_silk: the Cloth component (Verlet points,    *)
(* stick constraints, anchors, collisions), the ClothRendering component   *)
(* and the systems the ClothPlugin schedules.                              *)
(*                                                                         *)
(* Numbers.  An f32 is modelled by an exact rational <<n, d>> (d > 0,      *)
(* lowest terms); the two non-finite results the code can produce by a     *)
(* division by zero (NaN and +Inf) are handled where the division occurs.  *)
(* A Vec3 is modelled by its coordinate along one axis: sums, differences, *)
(* scalings, `distance`, `try_normalize` and `transform_point3` are exact  *)
(* on a line (the normalised direction is the sign).  A Mat4 is the affine *)
(* map p |-> s * p + t with s # 0.                                         *)
(*                                                                         *)
(* Collections.  A Vec<T> is a function on 0 .. len-1 (the source's        *)
(* indices), a HashMap<K, V> a function on its key set; its iteration      *)
(* order is arbitrary, so an iteration takes the order as a parameter.     *)
(***************************************************************************)
EXTENDS Integers, Naturals, Sequences, FiniteSets, TLC

---------------------------------------------------------------------------
(* f32 arithmetic.  A zero denominator is a non-finite value: <<0, 0>> is  *)
(* NaN, <<1, 0>> is +Inf, <<-1, 0>> is -Inf; they propagate through the     *)
(* operations and compare as IEEE 754 does (NaN is below and above         *)
(* nothing).                                                               *)

Abs(n) == IF n < 0 THEN -n ELSE n

RECURSIVE GCD(_, _)
GCD(a, b) == IF b = 0 THEN a ELSE GCD(b, a % b)

Rat(n, d) ==
    LET g == GCD(Abs(n), Abs(d))
        s == IF d < 0 THEN -1 ELSE 1
    IN  IF d = 0 THEN <<(IF n < 0 THEN -1 ELSE IF n > 0 THEN 1 ELSE 0), 0>>
        ELSE IF n = 0 THEN <<0, 1>>
        ELSE <<(s * n) \div g, (s * d) \div g>>

R(n) == <<n, 1>>

ZERO == R(0)

\* the greatest common divisor, 1 when both numbers are 0
Common(a, b) == LET g == GCD(Abs(a), Abs(b)) IN IF g = 0 THEN 1 ELSE g

RAdd(x, y) ==
    LET g == Common(x[2], y[2])
    IN  Rat(x[1] * (y[2] \div g) + y[1] * (x[2] \div g), (x[2] \div g) * y[2])

RNeg(x) == <<-x[1], x[2]>>

RSub(x, y) == RAdd(x, RNeg(y))

RMul(x, y) ==
    LET g1 == Common(x[1], y[2])
        g2 == Common(y[1], x[2])
    IN  Rat((x[1] \div g1) * (y[1] \div g2), (x[2] \div g2) * (y[2] \div g1))

RDiv(x, y) == RMul(x, IF y[1] < 0 THEN <<-y[2], -y[1]>> ELSE <<y[2], y[1]>>)

RLt(x, y) ==
    LET g == Common(x[2], y[2])
    IN  x[1] * (y[2] \div g) < y[1] * (x[2] \div g)

RLe(x, y) ==
    LET g == Common(x[2], y[2])
    IN  x[1] * (y[2] \div g) <= y[1] * (x[2] \div g)

RAbs(x) == <<Abs(x[1]), x[2]>>

\* x * x < y * y for a distance x (never negative), compared without forming
\* the squares, whose exact fractions leave the integer range
SquareLt(x, y) == RLt(x, RAbs(y))

is_finite(x) == x[2] # 0

clamp(x, lo, hi) == IF RLt(x, lo) THEN lo ELSE IF RLt(hi, x) THEN hi ELSE x

(* Option<T> *)
None == <<>>

Some(v) == <<v>>

IsSome(o) == o # <<>>

Unwrap(o) == o[1]

---------------------------------------------------------------------------
(* Vec3 and Mat4 *)

distance(a, b) == RAbs(RSub(a, b))

try_normalize_Unchecked(v) ==
    IF ~is_finite(v) \/ v[1] = 0 THEN Some(Rat(0, 0))
    ELSE Some(IF v[1] < 0 THEN R(-1) ELSE R(1))

try_normalize(v) ==
    IF ~is_finite(v) \/ v[1] = 0 THEN None
    ELSE Some(IF v[1] < 0 THEN R(-1) ELSE R(1))

Mat(s, t) == [s |-> s, t |-> t]

transform_point3(m, p) == RAdd(RMul(m.s, p), m.t)

inverse(m) == Mat(RDiv(R(1), m.s), RSub(ZERO, RDiv(m.t, m.s)))

IDENTITY == Mat(R(1), ZERO)

(* Vec<T> and HashMap<K, V> *)
len(v) == Cardinality(DOMAIN v)

EmptyVec == [i \in {} |-> ZERO]

push(v, x) == v @@ (len(v) :> x)

VecOf(seq) == [i \in 0 .. Len(seq) - 1 |-> seq[i + 1]]

get(v, i) == IF i \in DOMAIN v THEN Some(v[i]) ELSE None

EmptyMap == [k \in {} |-> ZERO]

insert(m, k, x) == (k :> x) @@ m

contains_key(m, k) == k \in DOMAIN m

RECURSIVE Perms(_)
Perms(S) ==
    IF S = {} THEN {<<>>}
    ELSE UNION {{<<x>> \o p : p \in Perms(S \ {x})} : x \in S}

---------------------------------------------------------------------------
(* stick.rs: StickGeneration, StickLen, StickMode *)

Quads == "Quads"

Triangles == "Triangles"

Auto == [kind |-> "Auto"]

FixedLen(v) == [kind |-> "Fixed", value |-> v]

get_len(stick_len, p_a, p_b) ==
    IF stick_len.kind = "Auto" THEN distance(p_a, p_b) ELSE stick_len.value

Fixed == [kind |-> "Fixed"]

Spring(min_percent, max_percent) ==
    [kind |-> "Spring", min_percent |-> min_percent, max_percent |-> max_percent]

(* vertex_anchor.rs: VertexAnchor *)
VertexAnchor(custom_target, custom_offset, ignore_vertex_position) ==
    [custom_target |-> custom_target, custom_offset |-> custom_offset,
     ignore_vertex_position |-> ignore_vertex_position]

DefaultAnchor == VertexAnchor(None, None, FALSE)

\* `anchor_query` is a function from entities to Option<Mat4>.  The caller
\* (cloth.rs, update_anchored_points) stores the result unconditionally, so a
\* failed lookup still yields a position: the one resolved against the
\* cloth's own transform.
get_position(anchor, initial_pos, self_transform, anchor_query) ==
    LET found  == IF IsSome(anchor.custom_target)
                  THEN anchor_query[Unwrap(anchor.custom_target)]
                  ELSE None
        matrix == IF IsSome(found) THEN Unwrap(found) ELSE self_transform
        base   == IF anchor.ignore_vertex_position THEN ZERO ELSE initial_pos
        local  == IF IsSome(anchor.custom_offset)
                  THEN RAdd(base, Unwrap(anchor.custom_offset))
                  ELSE base
    IN  transform_point3(matrix, local)

---------------------------------------------------------------------------
(* components/cloth.rs: Cloth *)

Cloth(anchored_points, current, previous, stick_lengths, stick_modes) ==
    [anchored_points |-> anchored_points,
     current_point_positions |-> current,
     previous_point_positions |-> previous,
     stick_lengths |-> stick_lengths,
     stick_modes |-> stick_modes]

DefaultCloth == Cloth(EmptyMap, EmptyVec, EmptyVec, EmptyMap, EmptyMap)

compute_vertex_positions(cloth, transform) ==
    LET matrix == inverse(transform)
    IN  [i \in DOMAIN cloth.current_point_positions |->
            transform_point3(matrix, cloth.current_point_positions[i])]

chunks_exact_AllOrNothing(indices) ==
    IF len(indices) % 3 = 0 THEN len(indices) \div 3 ELSE 0

\* chunks_exact(3): the number of complete index triples
chunks_exact(indices) == len(indices) \div 3

NewPanics_IndicesOnly(vertex_positions, indices, anchored_points) ==
    \E k \in 0 .. 3 * chunks_exact(indices) - 1 :
        indices[k] \notin DOMAIN vertex_positions

\* Cloth::new panics on an anchored vertex id out of bounds (line 109) and on
\* a triangle index out of bounds (line 124)
NewPanics(vertex_positions, indices, anchored_points) ==
    \/ \E i \in DOMAIN anchored_points : i \notin DOMAIN vertex_positions
    \/ \E k \in 0 .. 3 * chunks_exact(indices) - 1 :
          indices[k] \notin DOMAIN vertex_positions

reverse_exists_Forward(sticks, a, b) == contains_key(sticks, <<a, b>>)

\* lines 125, 128, 132: the stick is already stored in the other direction
reverse_exists(sticks, a, b) == contains_key(sticks, <<b, a>>)

\* one iteration of the loop of lines 122-136, on the n-th triple
new_sticks_of_triple(sticks, positions, indices, stick_generation, stick_len, n) ==
    LET a  == indices[3 * n]
        b  == indices[3 * n + 1]
        c  == indices[3 * n + 2]
        s1 == IF ~reverse_exists(sticks, a, b)
              THEN insert(sticks, <<a, b>>,
                          get_len(stick_len, positions[a], positions[b]))
              ELSE sticks
        s2 == IF ~reverse_exists(s1, b, c)
              THEN insert(s1, <<b, c>>,
                          get_len(stick_len, positions[b], positions[c]))
              ELSE s1
    IN  IF stick_generation = Triangles /\ ~reverse_exists(s2, c, a)
        THEN insert(s2, <<c, a>>,
                    get_len(stick_len, positions[c], positions[a]))
        ELSE s2

\* the stick map after the iterations lo .. hi - 1 of the loop, from `sticks`
RECURSIVE NewStickLengths(_, _, _, _, _, _, _)
NewStickLengths(sticks, positions, indices, stick_generation, stick_len, lo, hi) ==
    IF hi <= lo THEN sticks
    ELSE IF hi = lo + 1
    THEN new_sticks_of_triple(sticks, positions, indices, stick_generation,
                              stick_len, lo)
    ELSE LET mid   == (lo + hi) \div 2
             first == NewStickLengths(sticks, positions, indices,
                                      stick_generation, stick_len, lo, mid)
         \* (the test is always true: it makes the evaluation complete the
         \* first iterations before the later ones start, as the loop does)
         IN  IF DOMAIN first = DOMAIN first
             THEN NewStickLengths(first, positions, indices, stick_generation,
                                  stick_len, mid, hi)
             ELSE first

\* lines 107-109: the position stored with an anchored vertex id (the panic
\* on an id out of bounds is NewPanics)
anchored_position(vertex_positions, i) ==
    IF IsSome(get(vertex_positions, i)) THEN vertex_positions[i] ELSE ZERO

NewCloth_PreviousUntransformed(vertex_positions, indices, anchored_points, stick_generation, stick_len, stick_mode, transform_matrix) ==
    LET anchored  == [i \in DOMAIN anchored_points |->
                        <<anchored_points[i], anchored_position(vertex_positions, i)>>]
        positions == [i \in DOMAIN vertex_positions |->
                        transform_point3(transform_matrix, vertex_positions[i])]
        lengths   == NewStickLengths(EmptyMap, positions, indices,
                                     stick_generation, stick_len,
                                     0, chunks_exact(indices))
        modes     == [id \in DOMAIN lengths |-> stick_mode]
    IN  Cloth(anchored, positions, vertex_positions, lengths, modes)

NewCloth(vertex_positions, indices, anchored_points, stick_generation, stick_len, stick_mode, transform_matrix) ==
    LET anchored  == [i \in DOMAIN anchored_points |->
                        <<anchored_points[i], anchored_position(vertex_positions, i)>>]
        positions == [i \in DOMAIN vertex_positions |->
                        transform_point3(transform_matrix, vertex_positions[i])]
        lengths   == NewStickLengths(EmptyMap, positions, indices,
                                     stick_generation, stick_len,
                                     0, chunks_exact(indices))
        modes     == [id \in DOMAIN lengths |-> stick_mode]
    IN  Cloth(anchored, positions, positions, lengths, modes)

edit_stick_modes_Insert(cloth, sticks, new_mode) ==
    [cloth EXCEPT !.stick_modes =
        [id \in DOMAIN cloth.stick_modes \cup sticks |->
            IF id \in sticks THEN new_mode ELSE cloth.stick_modes[id]]]

edit_stick_modes(cloth, sticks, new_mode) ==
    [cloth EXCEPT !.stick_modes =
        [id \in DOMAIN cloth.stick_modes |->
            IF id \in sticks THEN new_mode ELSE cloth.stick_modes[id]]]

add_point_IdPastEnd(cloth, pos, stick_mode, anchor, transform_matrix, connects_to) ==
    LET center   == transform_point3(transform_matrix, pos)
        current  == push(cloth.current_point_positions, center)
        previous == push(cloth.previous_point_positions, center)
        id       == len(current)
        sticks   == {<<id, i>> : i \in DOMAIN current \cap connects_to}
        modes    == [s \in DOMAIN cloth.stick_modes \cup sticks |->
                        IF s \in sticks THEN stick_mode ELSE cloth.stick_modes[s]]
        lengths  == [s \in DOMAIN cloth.stick_lengths \cup sticks |->
                        IF s \in sticks THEN distance(current[s[2]], center)
                        ELSE cloth.stick_lengths[s]]
        anchored == IF IsSome(anchor)
                    THEN insert(cloth.anchored_points, id, <<Unwrap(anchor), pos>>)
                    ELSE cloth.anchored_points
    IN  Cloth(anchored, current, previous, lengths, modes)

add_point_NoPrevious(cloth, pos, stick_mode, anchor, transform_matrix, connects_to) ==
    LET center  == transform_point3(transform_matrix, pos)
        current == push(cloth.current_point_positions, center)
    IN  [cloth EXCEPT !.current_point_positions = current]

\* `connects_to` is the set of point ids the predicate accepts
add_point(cloth, pos, stick_mode, anchor, transform_matrix, connects_to) ==
    LET center   == transform_point3(transform_matrix, pos)
        current  == push(cloth.current_point_positions, center)
        previous == push(cloth.previous_point_positions, center)
        id       == IF len(current) = 0 THEN 0 ELSE len(current) - 1
        sticks   == {<<id, i>> : i \in DOMAIN current \cap connects_to}
        modes    == [s \in DOMAIN cloth.stick_modes \cup sticks |->
                        IF s \in sticks THEN stick_mode ELSE cloth.stick_modes[s]]
        lengths  == [s \in DOMAIN cloth.stick_lengths \cup sticks |->
                        IF s \in sticks THEN distance(current[s[2]], center)
                        ELSE cloth.stick_lengths[s]]
        anchored == IF IsSome(anchor)
                    THEN insert(cloth.anchored_points, id, <<Unwrap(anchor), pos>>)
                    ELSE cloth.anchored_points
    IN  Cloth(anchored, current, previous, lengths, modes)

solve_collisions_Unfiltered(cloth, solve_point) ==
    [cloth EXCEPT !.current_point_positions =
        [i \in DOMAIN cloth.current_point_positions |->
            LET p == cloth.current_point_positions[i]
            IN  IF IsSome(solve_point[p]) THEN Unwrap(solve_point[p]) ELSE p]]

\* `solve_point` is the closure, as a function on the positions of the cloth
solve_collisions(cloth, solve_point) ==
    [cloth EXCEPT !.current_point_positions =
        [i \in DOMAIN cloth.current_point_positions |->
            LET p == cloth.current_point_positions[i]
            IN  IF ~contains_key(cloth.anchored_points, i) /\ IsSome(solve_point[p])
                THEN Unwrap(solve_point[p])
                ELSE p]]

\* update_anchored_points indexes current_point_positions[*i] (line 229)
AnchoredPanics(cloth) ==
    \E i \in DOMAIN cloth.anchored_points : i \notin DOMAIN cloth.current_point_positions

update_anchored_points_Stale(cloth, transform, anchor_query) == cloth

update_anchored_points(cloth, transform, anchor_query) ==
    [cloth EXCEPT !.current_point_positions =
        [i \in DOMAIN cloth.current_point_positions |->
            IF contains_key(cloth.anchored_points, i)
            THEN get_position(cloth.anchored_points[i][1],
                              cloth.anchored_points[i][2], transform, anchor_query)
            ELSE cloth.current_point_positions[i]]]

update_points_StalePrevious(cloth, friction, acceleration) ==
    LET position_cache == cloth.current_point_positions
    IN  [cloth EXCEPT
            !.current_point_positions =
                [i \in DOMAIN position_cache |->
                    IF ~contains_key(cloth.anchored_points, i)
                    THEN RAdd(position_cache[i], RMul(acceleration, friction))
                    ELSE position_cache[i]]]

update_points_AbsoluteVelocity(cloth, friction, acceleration) ==
    LET position_cache == cloth.current_point_positions
    IN  [cloth EXCEPT
            !.current_point_positions =
                [i \in DOMAIN position_cache |->
                    IF ~contains_key(cloth.anchored_points, i)
                    THEN RAdd(position_cache[i],
                              RAdd(RMul(position_cache[i], friction),
                                   RMul(acceleration, friction)))
                    ELSE position_cache[i]],
            !.previous_point_positions = position_cache]

update_points(cloth, friction, acceleration) ==
    LET position_cache == cloth.current_point_positions
        velocity(i) ==
            IF IsSome(get(cloth.previous_point_positions, i))
            THEN RSub(position_cache[i], cloth.previous_point_positions[i])
            ELSE ZERO
    IN  [cloth EXCEPT
            !.current_point_positions =
                [i \in DOMAIN position_cache |->
                    IF ~contains_key(cloth.anchored_points, i)
                    THEN RAdd(position_cache[i],
                              RAdd(RMul(velocity(i), friction),
                                   RMul(acceleration, friction)))
                    ELSE position_cache[i]],
            !.previous_point_positions = position_cache]

stick_target_NoSlack(mode, target_len, position_a, position_b) ==
    Some(target_len)

\* lines 270-285: the length the stick is relaxed to, None for `continue`
stick_target(mode, target_len, position_a, position_b) ==
    IF mode.kind = "Fixed" THEN Some(target_len)
    ELSE LET dist == RDiv(distance(position_a, position_b), target_len)
         IN  IF RLt(dist, mode.min_percent)
             THEN Some(RMul(target_len, mode.min_percent))
             ELSE IF RLt(mode.max_percent, dist)
             THEN Some(RMul(target_len, mode.max_percent))
             ELSE None

\* line 297: half of the target length along the stick
stick_direction_NoHalf(dir, target_len) == RMul(dir, target_len)

stick_direction(dir, target_len) == RDiv(RMul(dir, target_len), R(2))

\* lines 262-312: the body of the loop for one stick
relax_stick(cloth, id) ==
    LET id_a   == id[1]
        id_b   == id[2]
        points == cloth.current_point_positions
    IN  IF ~IsSome(get(points, id_a)) \/ ~IsSome(get(points, id_b)) THEN cloth
        ELSE
        LET position_a == points[id_a]
            position_b == points[id_b]
            fixed_a    == contains_key(cloth.anchored_points, id_a)
            fixed_b    == contains_key(cloth.anchored_points, id_b)
            target     == stick_target(cloth.stick_modes[id], cloth.stick_lengths[id],
                                       position_a, position_b)
            center     == RDiv(RAdd(position_b, position_a), R(2))
            dir        == try_normalize(RSub(position_b, position_a))
        IN  IF fixed_a /\ fixed_b THEN cloth
            ELSE IF ~IsSome(target) THEN cloth
            ELSE IF ~IsSome(dir) THEN cloth
            ELSE
            LET direction == stick_direction(Unwrap(dir), Unwrap(target))
                new_a == IF fixed_a THEN position_a
                         ELSE IF fixed_b THEN RSub(position_b, RMul(direction, R(2)))
                         ELSE RSub(center, direction)
                new_b == IF fixed_b THEN position_b
                         ELSE IF fixed_a THEN RAdd(position_a, RMul(direction, R(2)))
                         ELSE RAdd(center, direction)
            IN  [cloth EXCEPT !.current_point_positions =
                    [i \in DOMAIN points |->
                        IF i = id_b THEN new_b ELSE IF i = id_a THEN new_a
                        ELSE points[i]]]

\* one pass over the stick map, iterated in `order`, up to its n-th entry
relax_pass_FirstOnly(cloth, order, n) ==
    IF n = 0 THEN cloth ELSE relax_stick(cloth, order[1])

RECURSIVE relax_pass(_, _, _)
relax_pass(cloth, order, n) ==
    IF n = 0 THEN cloth
    ELSE relax_stick(relax_pass(cloth, order, n - 1), order[n])

\* `order` is the iteration order of the stick_lengths map
RECURSIVE update_sticks(_, _, _)
update_sticks(cloth, order, depth) ==
    IF depth = 0 THEN cloth
    ELSE relax_pass(update_sticks(cloth, order, depth - 1), order, Len(order))

---------------------------------------------------------------------------
(* mesh.rs and cloth_rendering.rs: Mesh, rectangle_mesh, ClothRendering *)

\* A Mesh asset: the position attribute (`kind` is "Float32x3", another
\* format, or "Missing"), optional UVs, colors and normals, optional indices.
Mesh(position_kind, positions, uvs, colors, normals, indices) ==
    [position_kind |-> position_kind, positions |-> positions, uvs |-> uvs,
     colors |-> colors, normals |-> normals, indices |-> indices]

\* lines 29-45: the triangles of the points i .. n - 1
RECURSIVE rectangle_indices(_, _, _)
rectangle_indices(size_x, n, i) ==
    IF i >= n THEN <<>>
    ELSE LET first  == IF (i + 1) % size_x # 0 /\ i + size_x < n
                       THEN <<i + 1, i, i + size_x>> ELSE <<>>
             second == IF i % size_x # 0 /\ i - size_x >= 0
                       THEN <<i - 1, i, i - size_x>> ELSE <<>>
         IN  first \o second \o rectangle_indices(size_x, n, i + 1)

\* The modelled axis is the one of `step`: point (x, y) is at x * step.
\* Normals and UVs are one symbolic value per vertex.
rectangle_mesh(size_x, size_y, step) ==
    LET n == size_x * size_y
    IN  Mesh("Float32x3",
             [i \in 0 .. n - 1 |-> RMul(R(i % size_x), step)],
             Some([i \in 0 .. n - 1 |-> <<"uv", i>>]),
             None,
             Some([i \in 0 .. n - 1 |-> <<"normal">>]),
             Some(VecOf(rectangle_indices(size_x, n, 0))))

None_ == "None"

SmoothNormals == "SmoothNormals"

FlatNormals == "FlatNormals"

ClothRendering(vertex_positions, vertex_uvs, vertex_colors, indices, normal_computing) ==
    [vertex_positions |-> vertex_positions, vertex_uvs |-> vertex_uvs,
     vertex_colors |-> vertex_colors, indices |-> indices,
     normal_computing |-> normal_computing]

DefaultRendering == ClothRendering(EmptyVec, None, None, EmptyVec, SmoothNormals)

\* the symbolic normal of the triangle with corners at a, b, c
face_normal(a, b, c) == <<"face", a, b, c>>

\* ClothRendering::init: "Ok" or the name of the error
init_error(mesh) ==
    IF mesh.position_kind = "Missing" THEN "MissingMeshAttribute"
    ELSE IF mesh.position_kind # "Float32x3" THEN "UnsupportedVertexPositionAttribute"
    ELSE IF IsSome(mesh.uvs) /\ len(Unwrap(mesh.uvs)) # len(mesh.positions)
    THEN "InvalidMeshAttribute"
    ELSE IF IsSome(mesh.colors) /\ len(Unwrap(mesh.colors)) # len(mesh.positions)
    THEN "InvalidMeshAttribute"
    ELSE IF ~IsSome(mesh.indices) THEN "MissingIndices"
    ELSE "Ok"

rendering_init(mesh, normal_computing) ==
    ClothRendering(mesh.positions, mesh.uvs, mesh.colors, Unwrap(mesh.indices),
                   normal_computing)

F32_MAX == 1000000

RECURSIVE fold_min(_, _)
fold_min(v, n) ==
    IF n = 0 THEN R(F32_MAX)
    ELSE LET m == fold_min(v, n - 1) IN IF RLt(v[n - 1], m) THEN v[n - 1] ELSE m

RECURSIVE fold_max(_, _)
fold_max(v, n) ==
    IF n = 0 THEN R(-F32_MAX)
    ELSE LET m == fold_max(v, n - 1) IN IF RLt(m, v[n - 1]) THEN v[n - 1] ELSE m

compute_aabb_QuarterExtents(rendering, offset) ==
    LET minimum == fold_min(rendering.vertex_positions, len(rendering.vertex_positions))
        maximum == fold_max(rendering.vertex_positions, len(rendering.vertex_positions))
    IN  [center       |-> RMul(Rat(1, 2), RAdd(maximum, minimum)),
         half_extents |-> RAdd(RMul(Rat(1, 4), RSub(maximum, minimum)),
                               IF IsSome(offset) THEN Unwrap(offset) ELSE ZERO)]

compute_aabb(rendering, offset) ==
    LET minimum == fold_min(rendering.vertex_positions, len(rendering.vertex_positions))
        maximum == fold_max(rendering.vertex_positions, len(rendering.vertex_positions))
    IN  [center       |-> RMul(Rat(1, 2), RAdd(maximum, minimum)),
         half_extents |-> RAdd(RMul(Rat(1, 2), RSub(maximum, minimum)),
                               IF IsSome(offset) THEN Unwrap(offset) ELSE ZERO)]

\* update_positions asserts that the lengths are equal (line 152)
UpdatePositionsPanics(rendering, vertex_positions) ==
    len(vertex_positions) # len(rendering.vertex_positions)

update_positions(rendering, vertex_positions) ==
    [rendering EXCEPT !.vertex_positions = vertex_positions]

\* duplicated_self indexes the vertex attributes with every index (line 167)
DuplicatePanics(rendering) ==
    \E k \in DOMAIN rendering.indices :
        rendering.indices[k] \notin DOMAIN rendering.vertex_positions

duplicated_self_Shared(rendering) == rendering

duplicated_self(rendering) ==
    LET dup(attr) == [k \in DOMAIN rendering.indices |-> attr[rendering.indices[k]]]
        \* Vec<Option<T>> collected into Option<Vec<T>>: Some of the empty
        \* vector when there is no index at all
        collect(attr) == IF IsSome(attr) THEN Some(dup(Unwrap(attr)))
                         ELSE IF len(rendering.indices) = 0 THEN Some(EmptyVec)
                         ELSE None
    IN  ClothRendering(dup(rendering.vertex_positions),
                       collect(rendering.vertex_uvs),
                       collect(rendering.vertex_colors),
                       [k \in DOMAIN rendering.indices |-> k],
                       rendering.normal_computing)

\* the face normal of the chunk holding entry k, for every entry of a chunk
compute_flat_normals(rendering) ==
    [k \in 0 .. 3 * chunks_exact(rendering.indices) - 1 |->
        LET c == 3 * (k \div 3)
        IN  face_normal(rendering.vertex_positions[rendering.indices[c]],
                        rendering.vertex_positions[rendering.indices[c + 1]],
                        rendering.vertex_positions[rendering.indices[c + 2]])]

\* the face normals pushed for vertex i by the first n chunks (lines 202-212)
RECURSIVE normals_of(_, _, _)
normals_of(rendering, i, n) ==
    IF n = 0 THEN <<>>
    ELSE LET a == rendering.indices[3 * (n - 1)]
             b == rendering.indices[3 * (n - 1) + 1]
             c == rendering.indices[3 * (n - 1) + 2]
             flat_normal == face_normal(rendering.vertex_positions[a],
                                        rendering.vertex_positions[b],
                                        rendering.vertex_positions[c])
             times(x) == IF x = i THEN <<flat_normal>> ELSE <<>>
         IN  normals_of(rendering, i, n - 1) \o times(a) \o times(b) \o times(c)

\* map[&i] panics for a vertex that no triangle references (line 215)
SmoothNormalsPanics(rendering) ==
    \/ \E k \in 0 .. 3 * chunks_exact(rendering.indices) - 1 :
          rendering.indices[k] \notin DOMAIN rendering.vertex_positions
    \/ \E i \in DOMAIN rendering.vertex_positions :
          \A k \in 0 .. 3 * chunks_exact(rendering.indices) - 1 :
              rendering.indices[k] # i

\* the average of a list of normals is the symbolic value <<"avg", list>>
compute_smooth_normals(rendering) ==
    [i \in DOMAIN rendering.vertex_positions |->
        <<"avg", normals_of(rendering, i, chunks_exact(rendering.indices))>>]

ApplyPanics(rendering) ==
    \/ rendering.normal_computing = SmoothNormals /\ SmoothNormalsPanics(rendering)
    \/ rendering.normal_computing = FlatNormals /\ DuplicatePanics(rendering)

apply(rendering, mesh) ==
    IF rendering.normal_computing = None_
    THEN [mesh EXCEPT !.positions = rendering.vertex_positions]
    ELSE IF rendering.normal_computing = SmoothNormals
    THEN [mesh EXCEPT !.positions = rendering.vertex_positions,
                      !.normals = Some(compute_smooth_normals(rendering))]
    ELSE LET new_self == duplicated_self(rendering)
         IN  [mesh EXCEPT
                !.positions = new_self.vertex_positions,
                !.uvs = IF IsSome(new_self.vertex_uvs) THEN new_self.vertex_uvs ELSE @,
                !.colors = IF IsSome(new_self.vertex_colors)
                           THEN new_self.vertex_colors ELSE @,
                !.normals = Some(compute_flat_normals(new_self)),
                !.indices = Some(new_self.indices)]

---------------------------------------------------------------------------
(* systems/collisions/rapier.rs: the closure handle_collisions gives to    *)
(* solve_collisions.  The other collider is the segment [lo, hi];          *)
(* project_point returns the nearest point of its boundary.                *)

OtherCollider(lo, hi) == [lo |-> lo, hi |-> hi]

project_point(other, point) ==
    LET to_lo == distance(point, other.lo)
        to_hi == distance(point, other.hi)
    IN  [point     |-> IF RLe(to_lo, to_hi) THEN other.lo ELSE other.hi,
         is_inside |-> RLt(other.lo, point) /\ RLt(point, other.hi)]

\* Vec3::Y, the fallback normal, has no component along the modelled axis
solve_point(other, offset, vel, point) ==
    LET projected_point == project_point(other, point)
        n      == try_normalize(RSub(projected_point.point, point))
        normal == IF IsSome(n) THEN Unwrap(n) ELSE ZERO
        d      == distance(point, projected_point.point)
    IN  IF projected_point.is_inside
        THEN Some(RAdd(projected_point.point,
                       RAdd(RMul(normal, offset), RMul(normal, vel))))
        ELSE IF SquareLt(d, offset)
        THEN Some(RSub(projected_point.point, RMul(normal, offset)))
        ELSE None

\* the closure of lines 60-80 on the positions of the cloth
contact_solver(cloth, other, offset, vel) ==
    [p \in {cloth.current_point_positions[i] : i \in DOMAIN cloth.current_point_positions} |->
        solve_point(other, offset, vel, p)]

---------------------------------------------------------------------------
(* components/cloth_builder.rs, config.rs, wind.rs *)

ClothBuilder(anchored_vertex_ids, stick_generation, stick_length, default_stick_mode, normals_computing) ==
    [anchored_vertex_ids |-> anchored_vertex_ids,
     stick_generation |-> stick_generation,
     stick_length |-> stick_length,
     default_stick_mode |-> default_stick_mode,
     normals_computing |-> normals_computing]

SquaredDeltaTime == [kind |-> "SquaredDeltaTime"]

FixedCoefficient(coef) == [kind |-> "FixedCoefficient", coef |-> coef]

ClothConfig(gravity, friction, sticks_computation_depth, acceleration_smoothing) ==
    [gravity |-> gravity, friction |-> friction,
     sticks_computation_depth |-> sticks_computation_depth,
     acceleration_smoothing |-> acceleration_smoothing]

\* gravity -9.81, friction 0.02, depth 5
DefaultConfig == ClothConfig(Rat(-981, 100), Rat(2, 100), 5, SquaredDeltaTime)

friction_coefficient(c) == RSub(R(1), clamp(c.friction, ZERO, R(1)))

smooth_value(c, delta_time) ==
    IF c.acceleration_smoothing.kind = "SquaredDeltaTime"
    THEN RMul(delta_time, delta_time)
    ELSE c.acceleration_smoothing.coef

smoothed_acceleration(c, acceleration, delta_time) ==
    RMul(acceleration, smooth_value(c, delta_time))

ConstantWind(velocity) == [kind |-> "ConstantWind", velocity |-> velocity]

SinWave(max_velocity, frequency, normalize, abs) ==
    [kind |-> "SinWave", max_velocity |-> max_velocity, frequency |-> frequency,
     normalize |-> normalize, abs |-> abs]

\* `sin` is the value of (elapsed_time * frequency).sin()
wind_velocity(wind, sin) ==
    IF wind.kind = "ConstantWind" THEN wind.velocity
    ELSE LET normalized == IF wind.normalize THEN RDiv(RAdd(sin, R(1)), R(2)) ELSE sin
             sin_value  == IF wind.abs THEN RAbs(normalized) ELSE normalized
         IN  RMul(sin_value, wind.max_velocity)

\* Winds::current_velocity: the fold over the first n winds
RECURSIVE current_velocity(_, _, _)
current_velocity(wind_forces, sin, n) ==
    IF n = 0 THEN ZERO
    ELSE RAdd(current_velocity(wind_forces, sin, n - 1),
              wind_velocity(wind_forces[n], sin))

---------------------------------------------------------------------------
(* State *)

VARIABLES
    cloth,        \* the Cloth component (DefaultCloth until inserted)
    spawned,      \* TRUE once Cloth, ClothRendering and Aabb are on the entity
    transform,    \* the GlobalTransform of the cloth entity
    last,         \* the last Cloth method called, with its arguments
    calls,        \* number of Cloth methods called
    added,        \* number of add_point calls
    vertex_count, \* number of vertices of the mesh the cloth was built from
    panicked,     \* TRUE once a panic has unwound the caller
    mesh,         \* the Mesh asset behind the entity's Handle<Mesh>
    mesh_loaded,  \* TRUE once Assets<Mesh> holds the asset
    rendering,    \* the ClothRendering component
    aabb,         \* the Aabb component
    rapier_collider, \* the rapier Collider component of the cloth, if any
    builder,      \* the ClothBuilder component
    builder_added,\* TRUE while Added<ClothBuilder> matches the entity
    config,       \* the ClothConfig resource
    winds,        \* the Winds resource
    targets,      \* the GlobalTransform of the anchor target entities
    collider,     \* the ClothCollider component, if any
    commands,     \* the component insertions queued in the current frame
    ran,          \* the systems that have run in the current frame
    fixed_runs,   \* runs of the FixedUpdate schedule in the current frame
    frame,        \* number of completed frames
    stages,       \* the Cloth stages executed in the current frame, in order
    grid,         \* the (size_x, size_y) given to rectangle_mesh, if any
    cloths,       \* the Cloth components of the other cloth entities
    alone,        \* what each of them becomes when it is the only cloth
    linvel,       \* the Velocity of the body the cloths collide with, if any
    phase         \* per cloth entity: 0, 1 after its collisions, 2 after its update

clothVars == <<cloth, spawned, transform, vertex_count, panicked>>

apiVars == <<last, calls, added>>

assetVars == <<mesh, mesh_loaded, rendering, aabb, rapier_collider>>

worldVars ==
    <<builder, config, winds, targets, collider, grid, cloths, alone, linvel, phase>>

scheduleVars == <<builder_added, commands, ran, fixed_runs, frame, stages>>

vars == <<clothVars, apiVars, assetVars, worldVars, scheduleVars>>

Call(op, friction, acceleration, depth) ==
    [op |-> op, friction |-> friction, acceleration |-> acceleration,
     depth |-> depth]

NoCall == Call("new", ZERO, ZERO, 0)

---------------------------------------------------------------------------
(* Inputs *)

MaxCalls == 2

MaxPoints == 4

MaxSticks == 3

MaxDepth == 2

Half == Rat(1, 2)

\* meshes: vertex positions (mesh space) and triangle indices
MeshData(positions, indices) ==
    [positions |-> VecOf(positions), indices |-> VecOf(indices)]

Meshes ==
    { MeshData(<<R(3)>>, <<>>),
      MeshData(<<R(0), R(4)>>, <<0, 1, 0>>),
      MeshData(<<R(1), R(1)>>, <<0, 1, 0>>),
      MeshData(<<R(0), R(1), R(5)>>, <<0, 1, 2>>),
      MeshData(<<R(1), R(1), R(0), R(4)>>, <<0, 1, 0, 2, 3, 2>>) }

Transforms == { IDENTITY, Mat(R(2), R(1)) }

NoAnchors == [i \in {} |-> DefaultAnchor]

AnchorMaps ==
    { NoAnchors, [i \in {0} |-> DefaultAnchor], [i \in {0, 1, 2} |-> DefaultAnchor] }

StickLens == { Auto, FixedLen(R(2)) }

StickModes == { Fixed, Spring(Half, R(2)) }

\* (friction, acceleration) arguments of update_points
Forces == { <<R(1), ZERO>>, <<R(1), R(-2)>>, <<Half, R(-2)>> }

\* the predicates given to add_point, as the set of ids they accept among
\* 0 .. n: none, every earlier point, every point
ConnectsTo(n) == { {}, 0 .. n - 1, 0 .. n }

OtherColliders == { OtherCollider(R(1), R(5)) }

NoTargets == [e \in {} |-> None]

NoCloths == [e \in {} |-> DefaultCloth]

\* no other cloth entity, no moving body
NoOthers ==
    /\ cloths = NoCloths
    /\ alone = NoCloths
    /\ linvel = None
    /\ phase = [e \in {} |-> 0]

---------------------------------------------------------------------------
(* Any sequence of calls of the public methods of a constructed Cloth *)

InitApi ==
    \E m \in Meshes, anchors \in AnchorMaps, g \in {Quads, Triangles},
       sl \in StickLens, sm \in StickModes, t \in Transforms :
        /\ ~NewPanics(m.positions, m.indices, anchors)
        /\ cloth = NewCloth(m.positions, m.indices, anchors, g, sl, sm, t)
        /\ spawned = TRUE
        /\ transform = t
        /\ last = NoCall
        /\ calls = 0
        /\ added = 0
        /\ vertex_count = len(m.positions)
        /\ panicked = FALSE
        /\ mesh = Mesh("Float32x3", m.positions, None, None, None, Some(m.indices))
        /\ mesh_loaded = TRUE
        /\ rendering = rendering_init(mesh, SmoothNormals)
        /\ aabb = compute_aabb(rendering, None)
        /\ builder = ClothBuilder(anchors, g, sl, sm, SmoothNormals)
        /\ builder_added = FALSE
        /\ config = DefaultConfig
        /\ winds = <<>>
        /\ targets = NoTargets
        /\ collider = None
        /\ commands = <<>>
        /\ rapier_collider = None
        /\ NoOthers
        /\ ran = {}
        /\ fixed_runs = 0
        /\ frame = 0
        /\ stages = <<>>
        /\ grid = <<0, 0>>

ApiUpdatePoints ==
    /\ calls < MaxCalls /\ ~panicked
    /\ \E f \in Forces :
        /\ cloth' = update_points(cloth, f[1], f[2])
        /\ last' = Call("update_points", f[1], f[2], 0)
    /\ calls' = calls + 1
    /\ UNCHANGED <<spawned, transform, added, vertex_count, panicked>>
    /\ UNCHANGED <<assetVars, worldVars, scheduleVars>>

ApiUpdateAnchoredPoints ==
    /\ calls < MaxCalls /\ ~panicked
    /\ \E t \in Transforms :
        /\ transform' = t
        /\ IF AnchoredPanics(cloth)
           THEN panicked' = TRUE /\ UNCHANGED cloth
           ELSE /\ cloth' = update_anchored_points(cloth, t, NoTargets)
                /\ UNCHANGED panicked
    /\ last' = Call("update_anchored_points", ZERO, ZERO, 0)
    /\ calls' = calls + 1
    /\ UNCHANGED <<spawned, added, vertex_count>>
    /\ UNCHANGED <<assetVars, worldVars, scheduleVars>>

ApiUpdateSticks ==
    /\ calls < MaxCalls /\ ~panicked
    /\ \E depth \in 0 .. MaxDepth, order \in Perms(DOMAIN cloth.stick_lengths) :
        /\ cloth' = update_sticks(cloth, order, depth)
        /\ last' = Call("update_sticks", ZERO, ZERO, depth)
    /\ calls' = calls + 1
    /\ UNCHANGED <<spawned, transform, added, vertex_count, panicked>>
    /\ UNCHANGED <<assetVars, worldVars, scheduleVars>>

ApiSolveCollisions ==
    /\ calls < MaxCalls /\ ~panicked
    /\ \E other \in OtherColliders :
        cloth' = solve_collisions(cloth, contact_solver(cloth, other, Half, ZERO))
    /\ last' = Call("solve_collisions", ZERO, ZERO, 0)
    /\ calls' = calls + 1
    /\ UNCHANGED <<spawned, transform, added, vertex_count, panicked>>
    /\ UNCHANGED <<assetVars, worldVars, scheduleVars>>

ApiAddPoint ==
    /\ calls < MaxCalls /\ ~panicked
    /\ len(cloth.current_point_positions) < MaxPoints
    /\ \E pos \in {R(3)}, sm \in {Spring(Half, R(2))},
          anchor \in {None, Some(DefaultAnchor)},
          connects_to \in ConnectsTo(len(cloth.current_point_positions)) :
        /\ Cardinality(DOMAIN cloth.stick_lengths) + Cardinality(connects_to)
               <= MaxSticks
        /\ cloth' = add_point(cloth, pos, sm, anchor, transform, connects_to)
    /\ last' = Call("add_point", ZERO, ZERO, 0)
    /\ calls' = calls + 1
    /\ added' = added + 1
    /\ UNCHANGED <<spawned, transform, vertex_count, panicked>>
    /\ UNCHANGED <<assetVars, worldVars, scheduleVars>>

ApiEditStickModes ==
    /\ calls < MaxCalls /\ ~panicked
    /\ \E id \in DOMAIN cloth.stick_modes \cup {<<0, 0>>}, sm \in StickModes :
        cloth' = edit_stick_modes(cloth, {id}, sm)
    /\ last' = Call("edit_stick_modes", ZERO, ZERO, 0)
    /\ calls' = calls + 1
    /\ UNCHANGED <<spawned, transform, added, vertex_count, panicked>>
    /\ UNCHANGED <<assetVars, worldVars, scheduleVars>>

NextApi ==
    \/ ApiUpdatePoints
    \/ ApiUpdateAnchoredPoints
    \/ ApiUpdateSticks
    \/ ApiSolveCollisions
    \/ ApiAddPoint
    \/ ApiEditStickModes

SpecApi == InitApi /\ [][NextApi]_vars

---------------------------------------------------------------------------
(* Properties of the Cloth methods *)

Current == cloth.current_point_positions

Previous == cloth.previous_point_positions

Sticks == DOMAIN cloth.stick_lengths

Anchored(i) == contains_key(cloth.anchored_points, i)

Called(op) == calls' = calls + 1 /\ last'.op = op

\* no other stick shares an endpoint with stick s
Isolated(s) ==
    \A t \in Sticks \ {s} : {t[1], t[2]} \cap {s[1], s[2]} = {}

\* C2: at all times current_point_positions and previous_point_positions
\* have the same length, the mesh vertex count plus the number of add_point
\* calls.
C2_SameLength ==
    spawned =>
        /\ len(Current) = len(Previous)
        /\ len(Current) = vertex_count + added

C2_Witness ==
    /\ spawned /\ added > 0 /\ calls = 2 /\ last.op = "update_points"
    /\ len(Current) = vertex_count + 1

\* C4: update_points moves every unanchored point by
\* velocity * friction + acceleration (friction not applied to acceleration).
C4_FrictionOnVelocityOnly ==
    [][Called("update_points") =>
        \A i \in DOMAIN Current :
            ~Anchored(i) =>
                cloth'.current_point_positions[i] =
                    RAdd(Current[i],
                         RAdd(RMul(RSub(Current[i], Previous[i]), last'.friction),
                              last'.acceleration))]_vars

\* C5: one relaxation pass over a cloth with a single Fixed stick of rest
\* length L, both endpoints unanchored and not coincident, leaves the
\* endpoints at distance exactly L.
C5_FixedStickReachesLength ==
    [][(/\ Called("update_sticks") /\ last'.depth = 1
        /\ Cardinality(Sticks) = 1)
       => \A s \in Sticks :
            (/\ cloth.stick_modes[s].kind = "Fixed"
             /\ ~Anchored(s[1]) /\ ~Anchored(s[2])
             /\ Current[s[1]] # Current[s[2]])
            => distance(cloth'.current_point_positions[s[1]],
                        cloth'.current_point_positions[s[2]])
                 = cloth.stick_lengths[s]]_vars

C5_Witness ==
    /\ calls = 1 /\ last.op = "update_sticks" /\ last.depth = 1
    /\ \E s \in Sticks :
        /\ Sticks = {s}
        /\ cloth.stick_modes[s].kind = "Fixed"
        /\ ~Anchored(s[1]) /\ ~Anchored(s[2])
        /\ cloth.stick_lengths[s] = R(2)
        /\ distance(Previous[s[1]], Previous[s[2]]) = R(4)
        /\ distance(Current[s[1]], Current[s[2]]) = R(2)

\* the stick is a Spring stick whose distance / rest length ratio is within
\* [min_percent, max_percent], bounds included
WithinSlack(s) ==
    LET m == cloth.stick_modes[s]
        ratio == RDiv(distance(Current[s[1]], Current[s[2]]), cloth.stick_lengths[s])
    IN  /\ m.kind = "Spring"
        /\ is_finite(ratio)
        /\ RLe(m.min_percent, ratio) /\ RLe(ratio, m.max_percent)

\* C6: update_sticks changes neither endpoint of a Spring stick whose ratio
\* is within its bounds (no other stick acting on its endpoints).
C6_SpringSlackUnchanged ==
    [][Called("update_sticks") =>
        \A s \in Sticks :
            (WithinSlack(s) /\ Isolated(s)) =>
                /\ cloth'.current_point_positions[s[1]] = Current[s[1]]
                /\ cloth'.current_point_positions[s[2]] = Current[s[2]]]_vars

C6_Witness ==
    /\ calls = 1 /\ last.op = "update_sticks" /\ last.depth >= 1
    /\ \E s \in Sticks :
        /\ WithinSlack(s) /\ Isolated(s)
        /\ ~Anchored(s[1]) /\ ~Anchored(s[2])
        /\ Current = Previous
        /\ distance(Current[s[1]], Current[s[2]])
             = RMul(cloth.stick_lengths[s], cloth.stick_modes[s].max_percent)

AllFinite(c) ==
    \A i \in DOMAIN c.current_point_positions :
        is_finite(c.current_point_positions[i])

\* C7: update_sticks leaves both endpoints of a stick with coincident
\* endpoints unchanged (Fixed or Spring, any rest length), produces no
\* NaN/Inf position, and still relaxes the other sticks of the pass.
C7_CoincidentSkipped ==
    [][(Called("update_sticks") /\ last'.depth >= 1) =>
        \A s \in Sticks :
            (Current[s[1]] = Current[s[2]] /\ Isolated(s)) =>
                /\ cloth'.current_point_positions[s[1]] = Current[s[1]]
                /\ cloth'.current_point_positions[s[2]] = Current[s[2]]
                /\ AllFinite(cloth')
                /\ \A t \in Sticks \ {s} :
                    (/\ Isolated(t) /\ cloth.stick_modes[t].kind = "Fixed"
                     /\ ~Anchored(t[1]) /\ ~Anchored(t[2])
                     /\ Current[t[1]] # Current[t[2]])
                    => distance(cloth'.current_point_positions[t[1]],
                                cloth'.current_point_positions[t[2]])
                         = cloth.stick_lengths[t]]_vars

C7_Witness ==
    /\ calls = 1 /\ last.op = "update_sticks" /\ last.depth >= 1
    /\ \E s, t \in Sticks :
        /\ s # t /\ Isolated(s) /\ Isolated(t)
        /\ Previous[s[1]] = Previous[s[2]]
        /\ Current[s[1]] = Previous[s[1]] /\ Current[s[2]] = Previous[s[2]]
        /\ cloth.stick_lengths[s] # ZERO
        /\ ~Anchored(s[1]) /\ ~Anchored(s[2])
        /\ distance(Previous[t[1]], Previous[t[2]]) # cloth.stick_lengths[t]
        /\ distance(Current[t[1]], Current[t[2]]) = cloth.stick_lengths[t]

---------------------------------------------------------------------------
(* Cloth::new on the meshes of rectangle_mesh (tests::init_from_mesh) *)

MaxGrid == 4

InitGrid ==
    \E size_x \in 1 .. MaxGrid, size_y \in 1 .. MaxGrid, g \in {Quads, Triangles},
       sl \in StickLens, t \in Transforms :
        /\ grid = <<size_x, size_y>>
        /\ mesh = rectangle_mesh(size_x, size_y, R(1))
        /\ mesh_loaded = TRUE
        /\ rendering = rendering_init(mesh, SmoothNormals)
        /\ aabb = compute_aabb(rendering, None)
        /\ builder = ClothBuilder(NoAnchors, g, sl, Fixed, SmoothNormals)
        /\ builder_added = TRUE
        /\ transform = t
        /\ cloth = DefaultCloth
        /\ spawned = FALSE
        /\ vertex_count = 0
        /\ panicked = FALSE
        /\ last = NoCall
        /\ calls = 0
        /\ added = 0
        /\ config = DefaultConfig
        /\ winds = <<>>
        /\ targets = NoTargets
        /\ collider = None
        /\ commands = <<>>
        /\ rapier_collider = None
        /\ NoOthers
        /\ ran = {}
        /\ fixed_runs = 0
        /\ frame = 0
        /\ stages = <<>>

GridNew ==
    /\ ~spawned
    /\ cloth' = NewCloth(rendering.vertex_positions, rendering.indices,
                         builder.anchored_vertex_ids, builder.stick_generation,
                         builder.stick_length, builder.default_stick_mode,
                         transform)
    /\ spawned' = TRUE
    /\ vertex_count' = len(rendering.vertex_positions)
    /\ builder_added' = FALSE
    /\ UNCHANGED <<transform, panicked, apiVars, assetVars, worldVars>>
    /\ UNCHANGED <<commands, ran, fixed_runs, frame, stages>>

NextGrid == GridNew

SpecGrid == InitGrid /\ [][NextGrid]_vars

ExpectedSticks(generation, size_x, size_y) ==
    (size_x - 1) * size_y + (size_y - 1) * size_x
        + (IF generation = Triangles THEN (size_x - 1) * (size_y - 1) ELSE 0)

\* C1 as stated: for every grid size (x, y), Quads yields
\* (x-1)*y + (y-1)*x sticks and Triangles (x-1)*(y-1) more.
C1_StickCountAnyGrid ==
    spawned =>
        Cardinality(Sticks) = ExpectedSticks(builder.stick_generation, grid[1], grid[2])

\* C1 amended: the stick counts hold for every grid with at least two points
\* on each axis.
C1_StickCount ==
    (spawned /\ grid[1] >= 2 /\ grid[2] >= 2) =>
        Cardinality(Sticks) = ExpectedSticks(builder.stick_generation, grid[1], grid[2])

C1_Witness ==
    /\ spawned /\ grid = <<3, 2>> /\ builder.stick_generation = Triangles
    /\ Cardinality(Sticks) = 9
    /\ len(Current) = 6

---------------------------------------------------------------------------
(* ClothPlugin: the systems of lib.rs on one cloth entity.  A frame runs   *)
(* the FixedUpdate schedule zero or more times, then the Update schedule;  *)
(* queued commands are applied when the Update schedule ends.              *)

MaxFrames == 3

MaxFixedRuns == 2

ClothCollider(offset, velocity_coefficient, dampen_others) ==
    [offset |-> offset, velocity_coefficient |-> velocity_coefficient,
     dampen_others |-> dampen_others]

\* the cuboid of the cloth Aabb grown by the collider offset
get_collider(bounds, cloth_collider) ==
    [center  |-> bounds.center,
     extents |-> RAdd(bounds.half_extents, cloth_collider.offset)]

PluginMeshes ==
    { Mesh("Float32x3", VecOf(<<R(3)>>), None, None, None, Some(VecOf(<<>>))),
      Mesh("Float32x3", VecOf(<<R(0), R(4)>>), None, None, None,
           Some(VecOf(<<0, 1, 0>>))),
      Mesh("Float32x3", VecOf(<<R(0), R(4)>>), None, None, None, None),
      Mesh("Missing", EmptyVec, None, None, None, Some(VecOf(<<0, 1, 0>>))),
      Mesh("Float32x2", VecOf(<<R(0), R(4)>>), None, None, None,
           Some(VecOf(<<0, 1, 0>>))) }

TargetAnchor == VertexAnchor(Some("target"), Some(R(1)), FALSE)

PluginAnchors ==
    { NoAnchors, [i \in {0} |-> DefaultAnchor], [i \in {0} |-> TargetAnchor],
      [i \in {0, 5} |-> DefaultAnchor] }

ZeroConfig == ClothConfig(ZERO, ZERO, 1, SquaredDeltaTime)

\* (ClothConfig, Winds) pairs
Worlds ==
    { <<ZeroConfig, <<>>>>,
      <<ClothConfig(R(-2), Half, 2, FixedCoefficient(R(1))), <<ConstantWind(R(1))>>>> }

\* the GlobalTransform of the entity named "target", or no such entity
TargetMaps == { [e \in {"target"} |-> None], [e \in {"target"} |-> Some(Mat(R(1), R(2)))] }

DeltaTimes == { Half }

InitPlugin ==
    \E m \in PluginMeshes, anchors \in PluginAnchors,
       nc \in {None_, SmoothNormals, FlatNormals}, w \in Worlds,
       tm \in TargetMaps, col \in {None, Some(ClothCollider(Half, R(1), None))},
       loaded \in BOOLEAN :
        /\ mesh = m
        /\ mesh_loaded = loaded
        /\ builder = ClothBuilder(anchors, Triangles, Auto, Fixed, nc)
        /\ builder_added = TRUE
        /\ config = w[1]
        /\ winds = w[2]
        /\ targets = tm
        /\ collider = col
        /\ transform = IDENTITY
        /\ cloth = DefaultCloth
        /\ rendering = DefaultRendering
        /\ aabb = compute_aabb(DefaultRendering, None)
        /\ rapier_collider = None
        /\ NoOthers
        /\ spawned = FALSE
        /\ vertex_count = 0
        /\ panicked = FALSE
        /\ last = NoCall
        /\ calls = 0
        /\ added = 0
        /\ commands = <<>>
        /\ ran = {}
        /\ fixed_runs = 0
        /\ frame = 0
        /\ stages = <<>>
        /\ grid = <<0, 0>>

\* systems::collisions::rapier::handle_collisions, in FixedUpdate.  The
\* contact pairs of the cloth entity are any subset of the other colliders.
HandleCollisions ==
    /\ ~panicked /\ ran = {} /\ fixed_runs < MaxFixedRuns
    /\ fixed_runs' = fixed_runs + 1
    /\ IF spawned /\ IsSome(collider) /\ IsSome(rapier_collider)
       THEN \E contact \in SUBSET OtherColliders :
              /\ IF contact = {}
                 THEN UNCHANGED <<cloth, stages>>
                 ELSE \E other \in contact :
                        /\ cloth' = solve_collisions(cloth,
                                       contact_solver(cloth, other,
                                                      Unwrap(collider).offset, ZERO))
                        /\ stages' = Append(stages, "solve_collisions")
              /\ rapier_collider' = Some(get_collider(aabb, Unwrap(collider)))
       ELSE UNCHANGED <<cloth, stages, rapier_collider>>
    /\ UNCHANGED <<spawned, transform, vertex_count, panicked, apiVars, worldVars>>
    /\ UNCHANGED <<mesh, mesh_loaded, rendering, aabb>>
    /\ UNCHANGED <<builder_added, commands, ran, frame>>

\* systems::cloth::init
RunInit ==
    /\ ~panicked /\ "init" \notin ran
    /\ ran' = ran \cup {"init"}
    /\ builder_added' = FALSE
    /\ IF builder_added /\ mesh_loaded
       THEN IF init_error(mesh) # "Ok"
            THEN /\ panicked' = TRUE
                 /\ UNCHANGED <<cloth, vertex_count, rendering, aabb, commands>>
            ELSE LET new_rendering == rendering_init(mesh, builder.normals_computing)
                 IN  IF NewPanics(new_rendering.vertex_positions,
                                  new_rendering.indices, builder.anchored_vertex_ids)
                     THEN /\ panicked' = TRUE
                          /\ UNCHANGED <<cloth, vertex_count, rendering, aabb, commands>>
                     ELSE /\ rendering' = new_rendering
                          /\ aabb' = compute_aabb(new_rendering, None)
                          /\ cloth' = NewCloth(new_rendering.vertex_positions,
                                               new_rendering.indices,
                                               builder.anchored_vertex_ids,
                                               builder.stick_generation,
                                               builder.stick_length,
                                               builder.default_stick_mode,
                                               transform)
                          /\ vertex_count' = len(new_rendering.vertex_positions)
                          /\ commands' = Append(commands, <<"Cloth">>)
                          /\ UNCHANGED panicked
       ELSE UNCHANGED <<cloth, vertex_count, rendering, aabb, commands, panicked>>
    /\ UNCHANGED <<spawned, transform, apiVars, worldVars>>
    /\ UNCHANGED <<mesh, mesh_loaded, rapier_collider, fixed_runs, frame, stages>>

\* systems::collisions::rapier::init_cloth_collider
RunInitClothCollider ==
    /\ ~panicked /\ "init_cloth_collider" \notin ran
    /\ ran' = ran \cup {"init_cloth_collider"}
    /\ IF spawned /\ IsSome(collider) /\ ~IsSome(rapier_collider)
       THEN commands' = Append(commands,
                               <<"Collider", get_collider(aabb, Unwrap(collider))>>)
       ELSE UNCHANGED commands
    /\ UNCHANGED <<clothVars, apiVars, assetVars, worldVars>>
    /\ UNCHANGED <<builder_added, fixed_runs, frame, stages>>

\* systems::cloth::update
RunUpdate ==
    /\ ~panicked /\ "update" \notin ran
    /\ ran' = ran \cup {"update"}
    /\ IF spawned
       THEN \E delta_time \in DeltaTimes, sin \in {ZERO},
               order \in Perms(DOMAIN cloth.stick_lengths) :
              LET wind_force == current_velocity(winds, sin, Len(winds))
                  moved == update_points(cloth, friction_coefficient(config),
                               smoothed_acceleration(config,
                                   RAdd(wind_force, config.gravity), delta_time))
              IN  IF AnchoredPanics(moved)
                  THEN panicked' = TRUE /\ UNCHANGED <<cloth, stages>>
                  ELSE /\ cloth' = update_sticks(
                                      update_anchored_points(moved, transform, targets),
                                      order, config.sticks_computation_depth)
                       /\ stages' = stages \o <<"update_points",
                                               "update_anchored_points",
                                               "update_sticks">>
                       /\ UNCHANGED panicked
       ELSE UNCHANGED <<cloth, stages, panicked>>
    /\ UNCHANGED <<spawned, transform, vertex_count, apiVars, assetVars, worldVars>>
    /\ UNCHANGED <<builder_added, commands, fixed_runs, frame>>

render_ready_Unchained == TRUE

\* (update, render).chain(): render runs after update
render_ready == "update" \in ran

\* systems::cloth::render
RunRender ==
    /\ ~panicked /\ "render" \notin ran /\ render_ready
    /\ ran' = ran \cup {"render"}
    /\ IF spawned /\ mesh_loaded
       THEN LET vertex_positions == compute_vertex_positions(cloth, transform)
                new_rendering == update_positions(rendering, vertex_positions)
            IN  IF \/ UpdatePositionsPanics(rendering, vertex_positions)
                   \/ ApplyPanics(new_rendering)
                THEN panicked' = TRUE /\ UNCHANGED <<rendering, mesh, aabb, stages>>
                ELSE /\ rendering' = new_rendering
                     /\ mesh' = apply(new_rendering, mesh)
                     /\ aabb' = compute_aabb(new_rendering, None)
                     /\ stages' = Append(stages, "render")
                     /\ UNCHANGED panicked
       ELSE UNCHANGED <<rendering, mesh, aabb, stages, panicked>>
    /\ UNCHANGED <<cloth, spawned, transform, vertex_count, apiVars, worldVars>>
    /\ UNCHANGED <<mesh_loaded, rapier_collider>>
    /\ UNCHANGED <<builder_added, commands, fixed_runs, frame>>

\* The Update schedule ends: the queued insertions are applied.  Between two
\* frames the application may move the cloth entity, and the asset server
\* may finish loading the mesh.
EndFrame ==
    /\ ~panicked /\ frame < MaxFrames
    /\ ran = {"init", "init_cloth_collider", "update", "render"}
    /\ spawned' = (spawned \/ \E k \in DOMAIN commands : commands[k][1] = "Cloth")
    /\ rapier_collider' =
          IF \E k \in DOMAIN commands : commands[k][1] = "Collider"
          THEN Some((CHOOSE c \in {commands[k] : k \in DOMAIN commands} :
                        c[1] = "Collider")[2])
          ELSE rapier_collider
    /\ commands' = <<>>
    /\ ran' = {}
    /\ fixed_runs' = 0
    /\ stages' = <<>>
    /\ frame' = frame + 1
    /\ \E t \in Transforms : transform' = t
    /\ \E loaded \in {mesh_loaded, TRUE} : mesh_loaded' = loaded
    /\ \E despawned \in {targets, [e \in DOMAIN targets |-> None]} :
          targets' = despawned
    /\ UNCHANGED <<cloth, vertex_count, panicked, apiVars>>
    /\ UNCHANGED <<builder, config, winds, collider, grid, cloths, alone, linvel, phase>>
    /\ UNCHANGED <<mesh, rendering, aabb, builder_added>>

NextPlugin ==
    \/ HandleCollisions
    \/ RunInit
    \/ RunInitClothCollider
    \/ RunUpdate
    \/ RunRender
    \/ EndFrame

SpecPlugin == InitPlugin /\ [][NextPlugin]_vars

---------------------------------------------------------------------------
(* Properties of the plugin *)

\* every anchored point of c is where its anchor resolves to
AnchorsResolved(c, self_transform, anchor_query) ==
    \A i \in DOMAIN c.anchored_points :
        c.current_point_positions[i] =
            get_position(c.anchored_points[i][1], c.anchored_points[i][2],
                         self_transform, anchor_query)

\* C3: once the update system has run in a frame, every anchored point is at
\* the position resolved from its anchor, whatever update_points and
\* update_sticks computed, and solve_collisions never moves an anchored point.
C3_AnchorWins ==
    [][/\ (spawned' /\ ~panicked' /\ "update" \in ran')
            => AnchorsResolved(cloth', transform', targets')
       /\ (stages' = Append(stages, "solve_collisions"))
            => \A i \in DOMAIN cloth.anchored_points :
                  cloth'.current_point_positions[i] = Current[i]]_vars

C3_Witness ==
    /\ spawned /\ ~panicked /\ "update" \in ran
    /\ \E k \in DOMAIN stages : stages[k] = "solve_collisions"
    /\ transform = Mat(R(2), R(1))
    /\ config.gravity # ZERO
    /\ len(Current) = 2 /\ Anchored(0) /\ ~Anchored(1)
    /\ cloth.anchored_points[0][1] = DefaultAnchor
    /\ Previous[0] = ZERO /\ Current[0] = R(1)
    /\ Current[1] # Previous[1]

\* a single unanchored point without stick, at rest, with no gravity, no wind,
\* no friction loss and no collider
FreePointAtRest ==
    /\ spawned /\ ~panicked
    /\ len(Current) = 1 /\ ~Anchored(0) /\ Sticks = {}
    /\ Current = Previous
    /\ config.gravity = ZERO /\ config.friction = ZERO /\ winds = <<>>
    /\ collider = None

\* C8: with zero gravity, zero wind and friction 0, a single unanchored point
\* without stick and with current == previous keeps its position, and stays
\* at rest, through every step of every frame.
C8_FreePointUnchanged ==
    [][FreePointAtRest =>
        /\ cloth'.current_point_positions = Current
        /\ cloth'.previous_point_positions = cloth'.current_point_positions]_vars

C8_Witness ==
    /\ FreePointAtRest
    /\ frame = 3 /\ "update" \in ran
    /\ transform = Mat(R(2), R(1))
    /\ Current[0] = R(3)

\* C9: with FlatNormals the rendered mesh has one vertex per entry of the
\* original index buffer, its index buffer is 0, 1, ..., N-1, and vertex k is
\* the original vertex referenced by the original index entry k.
C9_FlatDuplication ==
    (/\ spawned /\ ~panicked /\ "render" \in ran
     /\ rendering.normal_computing = FlatNormals)
    => LET n == len(rendering.indices)
       IN  /\ len(mesh.positions) = n
           /\ IsSome(mesh.indices)
           /\ Unwrap(mesh.indices) = [k \in 0 .. n - 1 |-> k]
           /\ \A k \in 0 .. n - 1 :
                 mesh.positions[k] = rendering.vertex_positions[rendering.indices[k]]

C9_Witness ==
    /\ spawned /\ ~panicked /\ "render" \in ran
    /\ rendering.normal_computing = FlatNormals
    /\ len(rendering.vertex_positions) = 2
    /\ rendering.indices = VecOf(<<0, 1, 0>>)
    /\ len(mesh.positions) = 3
    /\ mesh.positions[2] = rendering.vertex_positions[0]
    /\ mesh.positions[1] # mesh.positions[0]

\* the stages logged in the current frame follow `order`
StagesFollow(order) ==
    \A i, j \in DOMAIN stages :
        i < j =>
            \E a, b \in DOMAIN order :
                /\ order[a] = stages[i] /\ order[b] = stages[j]
                /\ IF stages[i] = "solve_collisions" THEN a <= b ELSE a < b

\* C10 as stated: in every tick the stages run in the order update_points,
\* update_anchored_points, update_sticks, solve_collisions, render.
C10_CollisionAfterSolver ==
    StagesFollow(<<"update_points", "update_anchored_points", "update_sticks",
                   "solve_collisions", "render">>)

\* C10 amended: in every frame update_points, update_anchored_points,
\* update_sticks and render run in that order, and every solve_collisions of
\* the frame runs before update_points.
C10_StageOrder ==
    StagesFollow(<<"solve_collisions", "update_points", "update_anchored_points",
                   "update_sticks", "render">>)

C10_Witness ==
    stages = <<"solve_collisions", "update_points", "update_anchored_points",
               "update_sticks", "render">>

\* the insertion of the Cloth components is queued or applied
ClothCreated == spawned \/ \E k \in DOMAIN commands : commands[k][1] = "Cloth"

\* C11: once the init system has run in a frame in which the mesh of the
\* entity is available, the cloth of the entity has been created, also when
\* the mesh became available after the frame that added the ClothBuilder.
C11_CreatedAtFirstMesh ==
    (mesh_loaded /\ "init" \in ran /\ ~panicked /\ init_error(mesh) = "Ok")
        => ClothCreated

\* C12 as stated: the result of update_sticks is the same for every order in
\* which the stick map can be iterated.
C12_OrderIndependent ==
    [][Called("update_sticks") =>
        \A order \in Perms(Sticks) :
            cloth' = update_sticks(cloth, order, last'.depth)]_vars

\* C12 amended: the result of update_sticks is the same for every iteration
\* order of the stick map when no two sticks share an endpoint.
C12_OrderIndependentWhenDisjoint ==
    [][(Called("update_sticks") /\ \A s \in Sticks : Isolated(s)) =>
        \A order \in Perms(Sticks) :
            cloth' = update_sticks(cloth, order, last'.depth)]_vars

C12_Witness ==
    /\ calls = 1 /\ last.op = "update_sticks" /\ last.depth >= 1
    /\ Cardinality(Sticks) = 2
    /\ \A s \in Sticks : Isolated(s)
    /\ \E i \in DOMAIN Current : Current[i] # Previous[i]

---------------------------------------------------------------------------
(* Several cloth entities in contact with the same body: handle_collisions *)
(* and update process them one after the other, in any order.              *)

Entities == {"a", "b"}

\* rapier.rs lines 57-59: the velocity the cloth receives from the body
contact_velocity(other_velocity, delta_time, cloth_collider) ==
    IF IsSome(other_velocity)
    THEN RMul(RMul(RMul(Unwrap(other_velocity), Unwrap(other_velocity)),
                   RMul(delta_time, delta_time)),
              cloth_collider.velocity_coefficient)
    ELSE ZERO

dampen_Always(other_velocity, cloth_collider) ==
    IF IsSome(other_velocity)
    THEN Some(RMul(Unwrap(other_velocity), Half))
    ELSE other_velocity

\* rapier.rs lines 81-85: the Velocity of the body after the contact
dampen(other_velocity, cloth_collider) ==
    IF IsSome(other_velocity) /\ IsSome(cloth_collider.dampen_others)
    THEN Some(RMul(Unwrap(other_velocity),
                   RSub(R(1), Unwrap(cloth_collider.dampen_others))))
    ELSE other_velocity

\* the body of the loop of handle_collisions for one contact pair
collide(c, other, other_velocity, delta_time, cloth_collider) ==
    solve_collisions(c, contact_solver(c, other, cloth_collider.offset,
                        contact_velocity(other_velocity, delta_time, cloth_collider)))

\* the body of the loop of update for one cloth (at most one stick)
update_cloth(c, cloth_config, delta_time) ==
    LET moved == update_points(c, friction_coefficient(cloth_config),
                     smoothed_acceleration(cloth_config, cloth_config.gravity,
                                           delta_time))
        order == CHOOSE o \in Perms(DOMAIN c.stick_lengths) : TRUE
    IN  update_sticks(update_anchored_points(moved, IDENTITY, NoTargets),
                      order, cloth_config.sticks_computation_depth)

ClothMeshes ==
    { MeshData(<<R(3)>>, <<>>), MeshData(<<R(2), R(4)>>, <<0, 1, 0>>) }

Velocities == { None, Some(R(1)), Some(R(2)) }

InitCloths ==
    \E ma \in ClothMeshes, mb \in ClothMeshes, v \in Velocities,
       d \in {None, Some(Half)}, other \in OtherColliders :
        LET new(m) == NewCloth(m.positions, m.indices, NoAnchors, Quads, Auto,
                               Fixed, IDENTITY)
            made == [e \in Entities |-> IF e = "a" THEN new(ma) ELSE new(mb)]
            cc   == ClothCollider(Half, R(1), d)
            cfg  == ClothConfig(R(-2), Half, 1, FixedCoefficient(R(1)))
        IN  /\ cloths = made
            /\ alone = [e \in Entities |->
                          update_cloth(collide(made[e], other, v, Half, cc), cfg, Half)]
            /\ linvel = v
            /\ phase = [e \in Entities |-> 0]
            /\ collider = Some(cc)
            /\ config = cfg
            /\ winds = <<>>
            /\ targets = NoTargets
            /\ builder = ClothBuilder(NoAnchors, Quads, Auto, Fixed, None_)
            /\ grid = <<0, 0>>
            /\ cloth = DefaultCloth
            /\ spawned = FALSE
            /\ transform = IDENTITY
            /\ vertex_count = 0
            /\ panicked = FALSE
            /\ last = NoCall
            /\ calls = 0
            /\ added = 0
            /\ mesh = Mesh("Float32x3", ma.positions, None, None, None, Some(ma.indices))
            /\ mesh_loaded = TRUE
            /\ rendering = DefaultRendering
            /\ aabb = compute_aabb(DefaultRendering, None)
            /\ rapier_collider = None
            /\ builder_added = FALSE
            /\ commands = <<>>
            /\ ran = {}
            /\ fixed_runs = 0
            /\ frame = 0
            /\ stages = <<>>

\* handle_collisions reaches the cloth entity e
CollideCloth(e) ==
    /\ phase[e] = 0
    /\ \E other \in OtherColliders :
        cloths' = [cloths EXCEPT ![e] =
                      collide(@, other, linvel, Half, Unwrap(collider))]
    /\ linvel' = dampen(linvel, Unwrap(collider))
    /\ phase' = [phase EXCEPT ![e] = 1]
    /\ UNCHANGED <<builder, config, winds, targets, collider, grid, alone>>
    /\ UNCHANGED <<clothVars, apiVars, assetVars, scheduleVars>>

\* update reaches the cloth entity e
UpdateCloth(e) ==
    /\ phase[e] = 1
    /\ cloths' = [cloths EXCEPT ![e] = update_cloth(@, config, Half)]
    /\ phase' = [phase EXCEPT ![e] = 2]
    /\ UNCHANGED <<builder, config, winds, targets, collider, grid, alone, linvel>>
    /\ UNCHANGED <<clothVars, apiVars, assetVars, scheduleVars>>

NextCloths == \E e \in Entities : CollideCloth(e) \/ UpdateCloth(e)

SpecCloths == InitCloths /\ [][NextCloths]_vars

\* C13 as stated: whatever the order and interleaving, every cloth ends its
\* tick as it does when it is processed alone.
C13_SameAsAlone ==
    \A e \in Entities : phase[e] = 2 => cloths[e] = alone[e]

\* the colliding body has a Velocity that the cloths dampen
Dampened == IsSome(linvel) /\ IsSome(Unwrap(collider).dampen_others)

\* C13 amended: every cloth ends its tick as it does when processed alone,
\* provided the cloths do not dampen the velocity of a body they collide with.
C13_SameAsAloneUndampened ==
    ~Dampened => \A e \in Entities : phase[e] = 2 => cloths[e] = alone[e]

C13_Witness ==
    /\ ~Dampened /\ linvel = Some(R(2))
    /\ \A e \in Entities : phase[e] = 2 /\ cloths[e] = alone[e]
    /\ cloths["b"].current_point_positions[0] # R(3)
    /\ len(cloths["a"].current_point_positions) = 2

---------------------------------------------------------------------------
(* Properties of the collision port *)

\* the number of calls of solve_collisions logged in the current frame
SolveCalls == Cardinality({k \in DOMAIN stages : stages[k] = "solve_collisions"})

\* C14 as stated (per tick): in a frame the solve function is invoked at most
\* once for each point, i.e. solve_collisions is called at most once.
C14_AtMostOncePerTick == SolveCalls <= 1

\* C14 amended (per call): solve_collisions leaves every anchored point
\* unchanged and gives every other point the value the solve function returns
\* for its position, or leaves it unchanged when the function returns None.
C14_SolveOncePerPoint ==
    [][(stages' = Append(stages, "solve_collisions")) =>
        \E other \in OtherColliders :
            \A i \in DOMAIN Current :
                LET solved == solve_point(other, Unwrap(collider).offset, ZERO,
                                          Current[i])
                IN  /\ cloth'.current_point_positions[i] =
                          IF ~Anchored(i) /\ IsSome(solved)
                          THEN Unwrap(solved) ELSE Current[i]
                    /\ cloth'.previous_point_positions[i] = Previous[i]]_vars

\* a collision moved the free point of a cloth out of the other collider, by
\* the offset of the cloth collider; the cloth has an anchored point too
C14_Witness ==
    /\ ran = {} /\ SolveCalls = 1
    /\ len(Current) = 2
    /\ Anchored(0) /\ Current[0] = Previous[0]
    /\ ~Anchored(1)
    /\ \E other \in OtherColliders :
          /\ RLt(other.lo, Previous[1]) /\ RLt(Previous[1], other.hi)
          /\ Current[1] = RAdd(other.hi, Unwrap(collider).offset)

---------------------------------------------------------------------------
(* Properties of the construction *)

\* C15: when ClothRendering::init fails (position attribute absent or not
\* Float32x3, no index buffer) no Cloth is created for the entity and the
\* application keeps running (no panic).
C15_InitErrorKeepsRunning ==
    (init_error(mesh) # "Ok") => (~panicked /\ ~ClothCreated)

\* the init system reaches Cloth::new with an anchored vertex id that is
\* not an index of the vertex positions
AnchorOutOfBounds ==
    /\ builder_added /\ mesh_loaded /\ init_error(mesh) = "Ok"
    /\ \E i \in DOMAIN builder.anchored_vertex_ids : i \notin DOMAIN mesh.positions

\* C16: Cloth::new with an anchored vertex id out of bounds panics, and no
\* created Cloth has an anchored point that is not one of its points.
C16_AnchorOutOfBoundsPanics ==
    [][/\ ("init" \notin ran /\ "init" \in ran' /\ AnchorOutOfBounds)
            => (panicked' /\ cloth' = cloth /\ ~ClothCreated')
       /\ ClothCreated'
            => \A i \in DOMAIN cloth'.anchored_points :
                  i \in DOMAIN cloth'.current_point_positions]_vars

C16_Witness ==
    /\ panicked /\ "init" \in ran /\ ~ClothCreated
    /\ init_error(mesh) = "Ok" /\ mesh_loaded
    /\ 5 \in DOMAIN builder.anchored_vertex_ids
    /\ len(mesh.positions) = 2
    /\ cloth = DefaultCloth

----------------------------------------------------------------------------
(* Properties of the anchor lookup *)

\* anchored point i of the cloth follows a custom target that has no transform
LookupFails(i) ==
    /\ i \in DOMAIN cloth.anchored_points
    /\ IsSome(cloth.anchored_points[i][1].custom_target)
    /\ ~IsSome(targets[Unwrap(cloth.anchored_points[i][1].custom_target)])

\* the update system runs its three stages on the cloth
UpdateRuns ==
    stages' = stages \o <<"update_points", "update_anchored_points", "update_sticks">>

----------------------------------------------------------------------------
(* Cloth::new on every index list over the vertices of a three-point mesh *)

MaxIndices == 6

NewPositions == VecOf(<<R(0), R(1), R(5)>>)

IndexLists ==
    UNION { {VecOf(seq) : seq \in [1 .. n -> DOMAIN NewPositions]} : n \in 0 .. MaxIndices }

InitNew ==
    \E indices \in IndexLists, g \in {Quads, Triangles} :
        /\ mesh = Mesh("Float32x3", NewPositions, None, None, None, Some(indices))
        /\ mesh_loaded = TRUE
        /\ rendering = rendering_init(mesh, None_)
        /\ aabb = compute_aabb(rendering, None)
        /\ builder = ClothBuilder(NoAnchors, g, Auto, Fixed, None_)
        /\ builder_added = TRUE
        /\ transform = IDENTITY
        /\ cloth = DefaultCloth
        /\ spawned = FALSE
        /\ vertex_count = 0
        /\ panicked = FALSE
        /\ last = NoCall
        /\ calls = 0
        /\ added = 0
        /\ config = DefaultConfig
        /\ winds = <<>>
        /\ targets = NoTargets
        /\ collider = None
        /\ commands = <<>>
        /\ rapier_collider = None
        /\ NoOthers
        /\ ran = {}
        /\ fixed_runs = 0
        /\ frame = 0
        /\ stages = <<>>
        /\ grid = <<0, 0>>

\* Cloth::new(vertex_positions, indices, anchored_points, ..)
New ==
    /\ ~spawned /\ ~panicked
    /\ IF NewPanics(mesh.positions, Unwrap(mesh.indices), builder.anchored_vertex_ids)
       THEN panicked' = TRUE /\ UNCHANGED <<cloth, spawned, vertex_count>>
       ELSE /\ cloth' = NewCloth(mesh.positions, Unwrap(mesh.indices),
                                 builder.anchored_vertex_ids, builder.stick_generation,
                                 builder.stick_length, builder.default_stick_mode,
                                 transform)
            /\ spawned' = TRUE
            /\ vertex_count' = len(mesh.positions)
            /\ UNCHANGED panicked
    /\ builder_added' = FALSE
    /\ UNCHANGED <<transform, apiVars, assetVars, worldVars>>
    /\ UNCHANGED <<commands, ran, fixed_runs, frame, stages>>

NextNew == New

SpecNew == InitNew /\ [][NextNew]_vars

\* the index list Cloth::new was given
NewIndices == Unwrap(mesh.indices)

\* the (a, b) and (b, c) sides of the complete triples of the index list
QuadSides ==
    UNION { { <<NewIndices[3 * n], NewIndices[3 * n + 1]>>,
              <<NewIndices[3 * n + 1], NewIndices[3 * n + 2]>> } :
            n \in 0 .. (len(NewIndices) \div 3) - 1 }

\* C18: after Cloth::new no stick is stored in both directions, and with
\* Quads generation every stick is the (a, b) or (b, c) side of a triangle.
C18_EdgeStoredOnce ==
    spawned =>
        /\ \A s \in Sticks : s[1] # s[2] => <<s[2], s[1]>> \notin Sticks
        /\ builder.stick_generation = Quads => Sticks \subseteq QuadSides

C18_Witness ==
    /\ spawned /\ builder.stick_generation = Triangles
    /\ NewIndices = VecOf(<<0, 1, 2, 2, 1, 0>>)
    /\ Sticks = {<<0, 1>>, <<1, 2>>, <<2, 0>>}

\* the index list cut to its complete triples
LeadingTriples ==
    [k \in 0 .. 3 * (len(NewIndices) \div 3) - 1 |-> NewIndices[k]]

\* C19: with an index list whose length is not a multiple of 3, Cloth::new
\* does not fail, has one point per vertex, and has the sticks of the
\* complete leading triples only.
C19_PartialTripleSkipped ==
    [][(~spawned /\ ~panicked /\ builder_added /\ ~builder_added'
          /\ len(NewIndices) % 3 # 0)
        => /\ spawned' /\ ~panicked'
           /\ len(cloth'.current_point_positions) = len(mesh.positions)
           /\ cloth' = NewCloth(mesh.positions, LeadingTriples,
                                builder.anchored_vertex_ids, builder.stick_generation,
                                builder.stick_length, builder.default_stick_mode,
                                transform)
           /\ DOMAIN cloth'.stick_lengths \subseteq
                 QuadSides \cup { <<NewIndices[3 * n + 2], NewIndices[3 * n]>> :
                                    n \in 0 .. (len(NewIndices) \div 3) - 1 }]_vars

C19_Witness ==
    /\ spawned /\ ~panicked
    /\ NewIndices = VecOf(<<0, 1, 2, 1, 2>>)
    /\ builder.stick_generation = Triangles
    /\ Sticks = {<<0, 1>>, <<1, 2>>, <<2, 0>>}
    /\ len(Current) = 3

----------------------------------------------------------------------------
(* Properties of the relaxation of anchored sticks *)

\* stick s has exactly one anchored endpoint, its endpoints are not at the
\* same place, and no other stick acts on them
OneAnchored(s) ==
    /\ Anchored(s[1]) # Anchored(s[2])
    /\ Current[s[1]] # Current[s[2]]
    /\ is_finite(Current[s[1]]) /\ is_finite(Current[s[2]])
    /\ Isolated(s)

\* where the unanchored endpoint of s is put for the length `target`: on the
\* side of the anchored endpoint where it already is
PlacedAt(s, target) ==
    LET fixed == IF Anchored(s[1]) THEN s[1] ELSE s[2]
        free  == IF Anchored(s[1]) THEN s[2] ELSE s[1]
    IN  IF RLt(Current[fixed], Current[free])
        THEN RAdd(Current[fixed], target)
        ELSE RSub(Current[fixed], target)

\* the unanchored endpoint of s after the step
FreeAfter(s) ==
    cloth'.current_point_positions[IF Anchored(s[1]) THEN s[2] ELSE s[1]]

\* the anchored points are where they were after the step
AnchoredUnmoved ==
    \A i \in DOMAIN cloth.anchored_points :
        cloth'.current_point_positions[i] = Current[i]

\* C20 as stated: update_sticks moves no anchored point, and puts the
\* unanchored endpoint of a stick with one anchored endpoint at the stick's
\* length from the anchored one.
C20_OneAnchoredAtLength ==
    [][(Called("update_sticks") /\ last'.depth >= 1) =>
        /\ AnchoredUnmoved
        /\ \A s \in Sticks :
              OneAnchored(s) => FreeAfter(s) = PlacedAt(s, cloth.stick_lengths[s])]_vars

\* the length a stick outside its slack is relaxed to: its length if Fixed,
\* the bound it violates if Spring
TargetOf(s) ==
    LET m == cloth.stick_modes[s]
        ratio == RDiv(distance(Current[s[1]], Current[s[2]]), cloth.stick_lengths[s])
    IN  IF m.kind = "Fixed" THEN cloth.stick_lengths[s]
        ELSE IF RLt(ratio, m.min_percent)
        THEN RMul(cloth.stick_lengths[s], m.min_percent)
        ELSE RMul(cloth.stick_lengths[s], m.max_percent)

\* C20 amended: update_sticks moves no anchored point; the unanchored
\* endpoint of a stick with one anchored endpoint is put at the stick's
\* length from the anchored one if the stick is Fixed, at the violated bound
\* if it is a Spring stick outside its slack, and is left where it is if it
\* is a Spring stick within its slack.
C20_OneAnchoredAtTarget ==
    [][(Called("update_sticks") /\ last'.depth >= 1) =>
        /\ AnchoredUnmoved
        /\ \A s \in Sticks :
              OneAnchored(s) =>
                  IF WithinSlack(s)
                  THEN FreeAfter(s) = Current[IF Anchored(s[1]) THEN s[2] ELSE s[1]]
                  ELSE FreeAfter(s) = PlacedAt(s, TargetOf(s))]_vars

C20_Witness ==
    /\ calls = 1 /\ last.op = "update_sticks" /\ last.depth >= 1
    /\ \E s \in Sticks :
        /\ Anchored(s[1]) /\ ~Anchored(s[2]) /\ Isolated(s)
        /\ cloth.stick_modes[s].kind = "Fixed"
        /\ Current[s[1]] = Previous[s[1]]
        /\ Current[s[2]] # Previous[s[2]]
        /\ distance(Previous[s[1]], Previous[s[2]]) # cloth.stick_lengths[s]
        /\ distance(Current[s[1]], Current[s[2]]) = cloth.stick_lengths[s]
    /\ \E t \in Sticks :
        /\ Anchored(t[1]) /\ Anchored(t[2]) /\ t[1] # t[2]
        /\ distance(Current[t[1]], Current[t[2]]) # cloth.stick_lengths[t]

----------------------------------------------------------------------------
(* Properties of the relaxation of Spring sticks *)

\* distance / rest length of stick s
Ratio(s) ==
    RDiv(distance(Current[s[1]], Current[s[2]]), cloth.stick_lengths[s])

\* the distance between the endpoints of s after the step
DistanceAfter(s) ==
    distance(cloth'.current_point_positions[s[1]],
             cloth'.current_point_positions[s[2]])

\* s is a Spring stick between two unanchored points, the only stick on them
FreeSpring(s) ==
    /\ cloth.stick_modes[s].kind = "Spring"
    /\ ~Anchored(s[1]) /\ ~Anchored(s[2])
    /\ Isolated(s)

\* the distance of s after the step is the bound its ratio violates, if any
AtViolatedBound(s) ==
    LET m == cloth.stick_modes[s]
        L == cloth.stick_lengths[s]
    IN  /\ RLt(Ratio(s), m.min_percent)
            => (DistanceAfter(s) = RMul(L, m.min_percent) /\ DistanceAfter(s) # L)
        /\ RLt(m.max_percent, Ratio(s))
            => (DistanceAfter(s) = RMul(L, m.max_percent) /\ DistanceAfter(s) # L)

----------------------------------------------------------------------------
(* Properties of the integration *)

\* C22: update_points makes the previous positions the current positions it
\* was called with, at every index, leaves the current position of every
\* anchored point unchanged, and changes neither the sticks nor the anchors.
C22_PreviousIsOldCurrent ==
    [][Called("update_points") =>
        /\ cloth'.previous_point_positions = Current
        /\ \A i \in DOMAIN cloth.anchored_points :
              cloth'.current_point_positions[i] = Current[i]
        /\ cloth'.stick_lengths = cloth.stick_lengths
        /\ cloth'.stick_modes = cloth.stick_modes
        /\ cloth'.anchored_points = cloth.anchored_points]_vars

\* update_points moved the free point of a cloth of one stick and left the
\* anchored one in place
C22_Witness ==
    /\ calls = 2 /\ last.op = "update_points" /\ last.acceleration # ZERO
    /\ len(Current) = 2 /\ Sticks = {<<0, 1>>}
    /\ Anchored(0) /\ Current[0] = Previous[0]
    /\ ~Anchored(1) /\ Current[1] # Previous[1]

----------------------------------------------------------------------------
(* Properties of the initial velocity *)

\* the mesh-space positions moved by the matrix
Transformed(positions, matrix) ==
    [i \in DOMAIN positions |-> transform_point3(matrix, positions[i])]

\* C23: right after Cloth::new the current and the previous positions are both
\* the vertex positions transformed by the matrix, and right after add_point
\* the current and the previous position of the new point are both the given
\* position transformed by the matrix.
C23_ZeroInitialVelocity ==
    /\ [](last.op = "new" =>
            /\ Current = Transformed(mesh.positions, transform)
            /\ Previous = Current)
    /\ [][Called("add_point") =>
            /\ len(cloth'.current_point_positions) = len(Current) + 1
            /\ len(cloth'.previous_point_positions) = len(Previous) + 1
            /\ cloth'.current_point_positions[len(Current)]
                  = transform_point3(transform, R(3))
            /\ cloth'.previous_point_positions[len(Current)]
                  = cloth'.current_point_positions[len(Current)]]_vars

\* a point added to a cloth that has moved since its construction, with a
\* matrix that is not the identity
C23_Witness ==
    /\ calls = 2 /\ last.op = "add_point" /\ added = 1
    /\ transform = Mat(R(2), R(1))
    /\ len(Current) = 3
    /\ Current[2] = R(7) /\ Previous[2] = R(7)
    /\ Current[1] # Previous[1]

----------------------------------------------------------------------------
(* Properties of the rendering *)

\* the render system acts on the cloth in this step
Renders ==
    "render" \notin ran /\ "render" \in ran' /\ spawned /\ mesh_loaded

\* C24: with SmoothNormals, on every mesh ClothRendering::init accepted, the
\* render system does not fail, writes one normal per vertex position and
\* leaves the index buffer of the mesh as it was.
C24_SmoothNormalsNeverFail ==
    [][(Renders /\ rendering.normal_computing = SmoothNormals) =>
        /\ ~panicked'
        /\ IsSome(mesh'.normals)
        /\ len(Unwrap(mesh'.normals)) = len(rendering.vertex_positions)
        /\ mesh'.indices = mesh.indices]_vars

----------------------------------------------------------------------------
(* ClothRendering::compute_aabb on any vertex positions and offset *)

MaxVertices == 3

Coordinates == { R(-2), ZERO, Half, R(3) }

VertexLists ==
    UNION { {VecOf(seq) : seq \in [1 .. n -> Coordinates]} : n \in 0 .. MaxVertices }

Offsets == { None, Some(ZERO), Some(Half) }

InitAabb ==
    \E positions \in VertexLists, offset \in Offsets :
        /\ rendering = ClothRendering(positions, None, None, EmptyVec, None_)
        /\ collider = IF IsSome(offset)
                      THEN Some(ClothCollider(Unwrap(offset), R(1), None))
                      ELSE None
        /\ aabb = [center |-> ZERO, half_extents |-> ZERO]
        /\ mesh = Mesh("Float32x3", positions, None, None, None, Some(EmptyVec))
        /\ mesh_loaded = TRUE
        /\ builder = ClothBuilder(NoAnchors, Quads, Auto, Fixed, None_)
        /\ builder_added = FALSE
        /\ transform = IDENTITY
        /\ cloth = DefaultCloth
        /\ spawned = FALSE
        /\ vertex_count = 0
        /\ panicked = FALSE
        /\ last = NoCall
        /\ calls = 0
        /\ added = 0
        /\ config = DefaultConfig
        /\ winds = <<>>
        /\ targets = NoTargets
        /\ commands = <<>>
        /\ rapier_collider = None
        /\ NoOthers
        /\ ran = {}
        /\ fixed_runs = 0
        /\ frame = 0
        /\ stages = <<>>
        /\ grid = <<0, 0>>

\* rendering.compute_aabb(Some(collider.offset)), or compute_aabb(None)
ComputeAabb ==
    /\ ran = {}
    /\ ran' = {"compute_aabb"}
    /\ aabb' = compute_aabb(rendering,
                            IF IsSome(collider) THEN Some(Unwrap(collider).offset)
                            ELSE None)
    /\ UNCHANGED <<clothVars, apiVars, worldVars>>
    /\ UNCHANGED <<mesh, mesh_loaded, rendering, rapier_collider>>
    /\ UNCHANGED <<builder_added, commands, fixed_runs, frame, stages>>

NextAabb == ComputeAabb

SpecAabb == InitAabb /\ [][NextAabb]_vars

\* the box holds every vertex position and its half extents are not negative
BoxContainsAll ==
    /\ \A i \in DOMAIN rendering.vertex_positions :
          /\ RLe(RSub(aabb.center, aabb.half_extents), rendering.vertex_positions[i])
          /\ RLe(rendering.vertex_positions[i], RAdd(aabb.center, aabb.half_extents))
    /\ RLe(ZERO, aabb.half_extents)

\* C25 as stated: for any vertex positions and any offset >= 0 the box of
\* compute_aabb holds every position and its half extents are not negative.
C25_AabbContainsAll ==
    ran = {"compute_aabb"} => BoxContainsAll

\* C25 amended: the same for any vertex positions that are not empty.
C25_AabbContainsAllNonEmpty ==
    (ran = {"compute_aabb"} /\ len(rendering.vertex_positions) >= 1) => BoxContainsAll

C25_Witness ==
    /\ ran = {"compute_aabb"}
    /\ rendering.vertex_positions = VecOf(<<R(3), R(-2), Half>>)
    /\ collider = Some(ClothCollider(Half, R(1), None))
    /\ aabb = [center |-> Half, half_extents |-> R(3)]

----------------------------------------------------------------------------
(* Properties of the stick maps *)

\* C26: stick_modes and stick_lengths always have the same keys, and
\* edit_stick_modes, on an existing stick or not, adds no key and changes no
\* length.
C26_SameStickKeys ==
    /\ [](DOMAIN cloth.stick_modes = DOMAIN cloth.stick_lengths)
    /\ [][Called("edit_stick_modes") =>
            /\ DOMAIN cloth'.stick_modes = DOMAIN cloth.stick_modes
            /\ cloth'.stick_lengths = cloth.stick_lengths]_vars

\* a point was added with two Spring sticks, then one of them was made Fixed
C26_Witness ==
    /\ calls = 2 /\ added = 1 /\ last.op = "edit_stick_modes"
    /\ \E s \in Sticks, t \in Sticks :
        /\ s[1] = len(Current) - 1 /\ t[1] = len(Current) - 1
        /\ cloth.stick_modes[s].kind = "Fixed"
        /\ cloth.stick_modes[t].kind = "Spring"
    /\ <<0, 0>> \notin Sticks

----------------------------------------------------------------------------
(* Properties of the point ids *)

\* C27: every stick endpoint and every anchored point id is an index of the
\* current (and previous) point positions, so update_anchored_points does
\* not panic and update_sticks finds both points of every stick.
C27_IdsInBounds ==
    /\ \A s \in Sticks : s[1] \in DOMAIN Current /\ s[2] \in DOMAIN Current
    /\ \A i \in DOMAIN cloth.anchored_points : i \in DOMAIN Current
    /\ DOMAIN Previous = DOMAIN Current
    /\ ~AnchoredPanics(cloth)
    /\ ~panicked

\* an anchored point was added with sticks to the others, then relaxed
C27_Witness ==
    /\ calls = 2 /\ added = 1 /\ last.op = "update_sticks" /\ last.depth >= 1
    /\ len(Current) = vertex_count + 1
    /\ Anchored(vertex_count)
    /\ \E s \in Sticks : s[1] = vertex_count /\ s[2] # vertex_count
    /\ \E i \in DOMAIN Current : Current[i] # Previous[i]

----------------------------------------------------------------------------
(* Properties of the stick ids *)

\* the three corners of every complete triangle of the mesh are distinct
DistinctCorners ==
    LET indices == Unwrap(mesh.indices)
    IN  \A n \in 0 .. chunks_exact(indices) - 1 :
            /\ indices[3 * n] # indices[3 * n + 1]
            /\ indices[3 * n + 1] # indices[3 * n + 2]
            /\ indices[3 * n + 2] # indices[3 * n]

\* C28: Cloth::new on triangles with distinct corners creates no stick
\* [i, i], and every stick add_point creates is between the new point and a
\* point that existed before the call.
C28_NoSelfStick ==
    /\ []((last.op = "new" /\ DistinctCorners) => \A s \in Sticks : s[1] # s[2])
    /\ [][Called("add_point") =>
            \A s \in DOMAIN cloth'.stick_lengths \ Sticks :
                s[1] = len(Current) /\ s[2] \in DOMAIN Current]_vars

----------------------------------------------------------------------------
(* The render system on a Cloth that add_point and update_points change *)

RenderMeshes ==
    { MeshData(<<R(0), R(4)>>, <<0, 1, 0>>),
      MeshData(<<R(0), R(1), R(5)>>, <<0, 1, 2>>),
      MeshData(<<R(0), R(1), R(5)>>, <<0, 1, 2, 2, 1>>),
      MeshData(<<R(0), R(1), R(5)>>, <<0, 1, 2, 2, 1, 0>>) }

InitRender ==
    \E m \in RenderMeshes, nc \in {None_, SmoothNormals, FlatNormals},
       t \in Transforms :
        /\ cloth = NewCloth(m.positions, m.indices, NoAnchors, Triangles, Auto, Fixed, t)
        /\ spawned = TRUE
        /\ transform = t
        /\ last = NoCall
        /\ calls = 0
        /\ added = 0
        /\ vertex_count = len(m.positions)
        /\ panicked = FALSE
        /\ mesh = Mesh("Float32x3", m.positions, None, None, None, Some(m.indices))
        /\ mesh_loaded = TRUE
        /\ rendering = rendering_init(mesh, nc)
        /\ aabb = compute_aabb(rendering, None)
        /\ builder = ClothBuilder(NoAnchors, Triangles, Auto, Fixed, nc)
        /\ builder_added = FALSE
        /\ config = DefaultConfig
        /\ winds = <<>>
        /\ targets = NoTargets
        /\ collider = None
        /\ commands = <<>>
        /\ rapier_collider = None
        /\ NoOthers
        /\ ran = {}
        /\ fixed_runs = 0
        /\ frame = 0
        /\ stages = <<>>
        /\ grid = <<0, 0>>

\* systems::cloth::render on the cloth entity
ApiRender ==
    /\ calls < MaxCalls /\ ~panicked
    /\ LET vertex_positions == compute_vertex_positions(cloth, transform)
           new_rendering == update_positions(rendering, vertex_positions)
       IN  IF \/ UpdatePositionsPanics(rendering, vertex_positions)
              \/ ApplyPanics(new_rendering)
           THEN panicked' = TRUE /\ UNCHANGED <<rendering, mesh, aabb>>
           ELSE /\ rendering' = new_rendering
                /\ mesh' = apply(new_rendering, mesh)
                /\ aabb' = compute_aabb(new_rendering, None)
                /\ UNCHANGED panicked
    /\ last' = Call("render", ZERO, ZERO, 0)
    /\ calls' = calls + 1
    /\ UNCHANGED <<cloth, spawned, transform, added, vertex_count>>
    /\ UNCHANGED <<mesh_loaded, rapier_collider, worldVars, scheduleVars>>

NextRender ==
    \/ ApiAddPoint
    \/ ApiUpdatePoints
    \/ ApiRender

SpecRender == InitRender /\ [][NextRender]_vars

\* C29: in every render step the cloth has as many points as its
\* ClothRendering has vertex positions, so update_positions does not panic.
C29_RenderLengthsAgree ==
    [][Called("render") =>
        /\ len(compute_vertex_positions(cloth, transform))
              = len(rendering.vertex_positions)
        /\ ~UpdatePositionsPanics(rendering, compute_vertex_positions(cloth, transform))]_vars


\* the face normal of the triangle that holds entry k of the index buffer of
\* the ClothRendering, from the positions the render step writes
TriangleNormal(k) ==
    LET c == 3 * (k \div 3)
        p(j) == compute_vertex_positions(cloth, transform)[rendering.indices[j]]
    IN  face_normal(p(c), p(c + 1), p(c + 2))

\* C30: with FlatNormals, for any index buffer, the render step writes as
\* many normals as duplicated vertex positions, and the three vertices of
\* every triangle get the face normal of that triangle.
C30_FlatNormalPerVertex ==
    [][(Called("render") /\ rendering.normal_computing = FlatNormals /\ ~panicked') =>
        /\ IsSome(mesh'.normals)
        /\ len(Unwrap(mesh'.normals)) = len(mesh'.positions)
        /\ \A k \in 0 .. 3 * (len(rendering.indices) \div 3) - 1 :
              Unwrap(mesh'.normals)[k] = TriangleNormal(k)]_vars

===========================================================================
